---- MODULE Spec2Model ----
(***************************************************************************)
(* Snowpipe streaming client: SnowflakeServiceClient (shared request-ID    *)
(* counter, atomically replaceable stage uploader, refresh loop) and       *)
(* SnowflakeIngestionChannel (InsertRows, WaitUntilCommitted).             *)
(* Source: src/internal/impl/ollama/chat_processor.go, lines 306-753.      *)
(***************************************************************************)
EXTENDS Integers, Sequences, FiniteSets, TLC

(* ------------------------------ bounds -------------------------------- *)
\* channel slots a caller holds on the one service client
NumChannels == 2
\* cap on the shared requestIDCounter (an int64 in the code)
MaxCounter == 5
\* sequencer values a control-plane response may carry: 0..MaxSeq
MaxSeq == 1
\* cap on the number of refresh ticks
MaxTicks == 2
\* cap on the polls of one WaitUntilCommitted (the 10 minute budget is finite)
MaxPolls == 2
\* size of the random space of the blob path (1<<48 in the code), scaled down
RandSpace == 2
\* batches the single writer of a channel has to deliver
MaxBatches == 2

(* ------------------------- program constants -------------------------- *)
\* the status code of a successful control-plane response
responseSuccess == 0
\* backoff.WithMaxRetries(backoff.NewConstantBackOff(time.Second), 3)
MaxUploadRetries == 3

Channels == 1..NumChannels
\* ChannelOptions.ID values a caller may pass; nothing forces them to differ
ChannelIDs == 1..NumChannels
StatusCodes == responseSuccess..(responseSuccess + 1)
SeqValues == 0..MaxSeq
\* fmt.Sprintf("%s_%d", resp.Prefix, resp.DeploymentID), fixed at construction
clientPrefix == "prefix_1"
\* nil, for an uploader reference and for an error value
Nil == 0

VARIABLES
    requestIDCounter,  \* SnowflakeServiceClient.requestIDCounter (shared with channels)
    uploader,          \* SnowflakeServiceClient.uploader: the AtomicValue cell
    ticks,             \* number of refresh ticks run so far
    pc,                \* per channel slot: position of its single logical writer
    chanID,            \* per channel: ChannelOptions.ID
    clientSequencer,   \* per channel: SnowflakeIngestionChannel.clientSequencer
    rowSequencer,      \* per channel: SnowflakeIngestionChannel.rowSequencer
    call,              \* per channel: locals and outcome of the current/last call
    batch,             \* per channel: the batch its writer is delivering
    persistedClient,   \* remote: per channel persisted client sequencer
    persistedRow,      \* remote: per channel persisted row sequencer
    committed,         \* remote: per channel the batches committed to the table
    requestLog,        \* history: request identifiers in the order drawn
    paths,             \* history: blob paths generated
    pathCalls,         \* history: number of InsertRows calls that generated a path
    published,         \* history: every value stored into the uploader cell
    lastTickFailed,    \* history: the most recent refresh tick failed
    opened,            \* history: per channel, the OpenChannel response and outcome
    sent,              \* history: per channel, its last two registerBlob requests
    refreshLog         \* history: configure calls and Stores of the refresh loop

clientVars == <<requestIDCounter, uploader, ticks>>
chanVars == <<pc, chanID, clientSequencer, rowSequencer, call, batch>>
remoteVars == <<persistedClient, persistedRow, committed>>
histVars == <<requestLog, paths, pathCalls, published, lastTickFailed, opened,
              sent, refreshLog>>
vars == <<clientVars, chanVars, remoteVars, histVars>>

(* ------------------------------ helpers ------------------------------- *)
\* stageUploaderResult{uploader, err}
StageUploaderResult(u, e) == [uploader |-> u, err |-> e]

\* the locals of a call that has not started
NoCall ==
    [op |-> "none", ret |-> "none", preRow |-> 0, preClient |-> 0,
     path |-> <<>>, loaded |-> StageUploaderResult(Nil, Nil),
     uploads |-> 0, registers |-> 0, echoed |-> 0,
     staleDue |-> FALSE, tickSince |-> FALSE,
     polls |-> 0, sawRow |-> FALSE, sawCommitted |-> FALSE,
     sawMismatch |-> FALSE, pollsAfterMismatch |-> 0,
     lastClient |-> 0, lastRow |-> 0,
     requests |-> 0, sawShape |-> FALSE, afterShape |-> 0,
     nonSuccess |-> FALSE, lastBehind |-> FALSE,
     uploadStartTime |-> 0, uploadFinishTime |-> 0, attemptStartTime |-> 0,
     uploadTime |-> 0,
     uploadedPath |-> <<>>, strayUpload |-> FALSE, strayRegister |-> FALSE,
     afterGoodTick |-> FALSE, loadTicks |-> 0]

\* the locals of a call of operation op that starts on channel ch
NewCall(ch, op) ==
    [NoCall EXCEPT !.op = op, !.ret = "running",
                   !.preRow = rowSequencer[ch],
                   !.preClient = clientSequencer[ch]]

\* the locals of a call that returned r: what the call no longer holds is
\* dropped (its blob path, its uploader, the last status it was not satisfied by)
Returned(c, r) ==
    [c EXCEPT !.ret = r, !.path = <<>>, !.loaded = StageUploaderResult(Nil, Nil),
              !.tickSince = FALSE, !.uploadedPath = <<>>, !.loadTicks = 0,
              !.afterGoodTick = IF r = "stale" THEN @ ELSE FALSE,
              !.lastClient = IF r = "ok" THEN @ ELSE 0,
              !.lastRow = IF r = "ok" THEN @ ELSE 0]

\* time.Now() inside an InsertRows call: the clock of a call advances by one
\* with every upload attempt (the attempt and the delay that follows a failure)
Now(c) == c.uploads

\* requestIDCounter.Add(1): the value the atomic add returns
CounterAddSkip(n) == n
CounterAdd(n) == n + 1

\* fmt.Sprintf("%s_%d", c.clientPrefix, rid)
RequestID(rid) == <<clientPrefix, rid>>

\* (int(c.ID) << 48) | rand.N(1<<48), with the random space scaled to RandSpace
FakeThreadID(id, r) == id * RandSpace + r

\* generateBlobPath(clientPrefix, threadID, counter): built from its three inputs
generateBlobPath(prefix, threadID, counter) == <<prefix, threadID, counter>>

\* the history of a channel slot OpenChannel was not called for
NotOpened == [ret |-> "none", status |-> responseSuccess,
              clientSequencer |-> 0, rowSequencer |-> 0]

(* ------------------------------- Init --------------------------------- *)
\* the state after NewSnowflakeServiceClient returned a client: the uploader
\* of the configure response is published, the counter is zero, no channel.
Init ==
    /\ requestIDCounter = 0
    /\ uploader = StageUploaderResult(1, Nil)
    /\ ticks = 0
    /\ pc = [ch \in Channels |-> "none"]
    /\ chanID = [ch \in Channels |-> 1]
    /\ clientSequencer = [ch \in Channels |-> 0]
    /\ rowSequencer = [ch \in Channels |-> 0]
    /\ call = [ch \in Channels |-> NoCall]
    /\ batch = [ch \in Channels |-> 1]
    /\ persistedClient = [ch \in Channels |-> 0]
    /\ persistedRow = [ch \in Channels |-> 0]
    /\ committed = [ch \in Channels |-> <<>>]
    /\ requestLog = <<>>
    /\ paths = {}
    /\ pathCalls = 0
    /\ published = {StageUploaderResult(1, Nil)}
    /\ lastTickFailed = FALSE
    /\ opened = [ch \in Channels |-> NotOpened]
    /\ sent = [ch \in Channels |-> <<>>]
    /\ refreshLog = [configures |-> 0, stores |-> 0]

(* --------------------- control-plane responses ------------------------ *)
\* Responses are enumerated up to the fields a caller reads: a field behind a
\* failed check is left at its zero value.

\* configure: a transport error, or {status, staging location}; locOK says
\* newUploader can build an uploader from the location
ConfigureResponses ==
    {[err |-> TRUE, status |-> responseSuccess, locOK |-> FALSE]}
        \cup [err : {FALSE}, status : StatusCodes, locOK : BOOLEAN]

\* openChannel: a transport error, or {status, table columns, sequencers};
\* schemaOK says the table columns yield a parquet schema
OpenResponses ==
    {[err |-> TRUE, status |-> responseSuccess, schemaOK |-> FALSE,
      clientSequencer |-> 0, rowSequencer |-> 0]}
        \cup {r \in [err : {FALSE}, status : StatusCodes, schemaOK : BOOLEAN,
                     clientSequencer : SeqValues, rowSequencer : SeqValues] :
                (r.status # responseSuccess \/ ~r.schemaOK)
                    => (r.schemaOK = (r.status # responseSuccess)
                        /\ r.clientSequencer = 0 /\ r.rowSequencer = 0)}

\* dropChannel: a transport error, or {status}
DropResponses ==
    {[err |-> TRUE, status |-> responseSuccess]}
        \cup [err : {FALSE}, status : StatusCodes]

\* registerBlob: a transport error, or the numbers of blobs, of chunks in the
\* first blob and of channels in its first chunk, and the first channel's
\* status code and client sequencer
RegisterResponses ==
    {[err |-> TRUE, blobs |-> 0, chunks |-> 0, channels |-> 0,
      status |-> responseSuccess, clientSequencer |-> 0]}
        \cup {r \in [err : {FALSE}, blobs : 0..2, chunks : 0..2, channels : 0..2,
                     status : StatusCodes, clientSequencer : SeqValues] :
                /\ (r.blobs # 1) => (r.chunks = 0)
                /\ (r.chunks # 1) => (r.channels = 0)
                /\ (r.channels # 1) => (r.status = responseSuccess)
                /\ (r.status # responseSuccess \/ r.channels # 1)
                       => (r.clientSequencer = 0)}

\* channelStatus: a transport error, or the top-level status and the channel
\* entries {status, persisted client sequencer, persisted row sequencer}
StatusEntries ==
    [status : StatusCodes, persistedClient : SeqValues, persistedRow : SeqValues]
ZeroEntry ==
    [status |-> responseSuccess, persistedClient |-> 0, persistedRow |-> 0]
StatusResponses ==
    {[err |-> TRUE, status |-> responseSuccess, channels |-> <<>>]}
        \cup {[err |-> FALSE, status |-> responseSuccess + 1, channels |-> <<>>]}
        \cup [err : {FALSE}, status : {responseSuccess},
              channels : {<<>>, <<ZeroEntry, ZeroEntry>>}
                             \cup {<<e>> : e \in StatusEntries}]

(* --------------------------- refresh loop ----------------------------- *)
\* newUploader(resp.StageLocation): an uploader and no error, or no uploader
\* and an error
newUploader(locOK, gen) == IF locOK THEN <<gen, Nil>> ELSE <<Nil, gen>>

\* a tick that keeps the uploader it replaces next to the new error
TickResultKeepOld(cfg, gen) ==
    IF cfg.err THEN StageUploaderResult(uploader.uploader, gen)
    ELSE LET r == newUploader(cfg.locOK, gen) IN StageUploaderResult(r[1], r[2])

\* a tick that leaves a published error in place
TickResultSticky(cfg, gen) ==
    IF uploader.err # Nil THEN uploader
    ELSE IF cfg.err THEN StageUploaderResult(Nil, gen)
    ELSE LET r == newUploader(cfg.locOK, gen) IN StageUploaderResult(r[1], r[2])

\* the value one tick stores (lines 401-408); the status code of the
\* configure response is not read
TickResult(cfg, gen) ==
    IF cfg.err THEN StageUploaderResult(Nil, gen)
    ELSE LET r == newUploader(cfg.locOK, gen) IN StageUploaderResult(r[1], r[2])

\* history only: the refresh failed, that is the control plane rejected the
\* configure call (transport error or non-success status) or no uploader could
\* be built from the location; the tick itself reads no more than TickResult
TickFailed(cfg) == cfg.err \/ cfg.status # responseSuccess \/ ~cfg.locOK

\* history only: the calls of one tick, the configureClient of line 401, and
\* the Store of line 403 (followed by return) or the Store of line 408
TickLog(log, cfg) ==
    [configures |-> log.configures + 1,
     stores |-> log.stores + (IF cfg.err THEN 1 ELSE 0)
                           + (IF ~cfg.err THEN 1 ELSE 0)]

\* one tick of uploadRefreshLoop: one configure call, one Store
RefreshTick ==
    /\ ticks < MaxTicks
    /\ \E cfg \in ConfigureResponses :
          /\ uploader' = TickResult(cfg, ticks + 2)
          /\ lastTickFailed' = TickFailed(cfg)
          /\ refreshLog' = TickLog(refreshLog, cfg)
    /\ published' = published \cup {uploader'}
    /\ ticks' = ticks + 1
    /\ call' = [ch \in Channels |->
                   IF pc[ch] = "load" THEN [call[ch] EXCEPT !.tickSince = TRUE]
                   ELSE call[ch]]
    /\ UNCHANGED <<requestIDCounter, pc, chanID, clientSequencer, rowSequencer,
                   batch, remoteVars, requestLog, paths, pathCalls, opened, sent>>

(* -------------------------- service client ---------------------------- *)
\* c.nextRequestID(): draw from the shared counter, record the identifier
NextRequestID ==
    /\ requestIDCounter < MaxCounter
    /\ requestIDCounter' = CounterAdd(requestIDCounter)
    /\ requestLog' = Append(requestLog, RequestID(requestIDCounter'))

\* lines 458-467: what OpenChannel makes of the openChannel response
OpenOutcome(resp) ==
    IF resp.err THEN "transport"
    ELSE IF resp.status # responseSuccess THEN "status"
    ELSE IF ~resp.schemaOK THEN "schema"
    ELSE "ok"

\* history only: the response OpenChannel got and what it returned
OpenRecord(resp) ==
    [ret |-> OpenOutcome(resp), status |-> resp.status,
     clientSequencer |-> resp.clientSequencer, rowSequencer |-> resp.rowSequencer]

\* an OpenChannel that starts every channel object at sequencers zero
OpenChannelZeroed(ch, id, resp) ==
    /\ pc[ch] = "none"
    /\ NextRequestID
    /\ opened' = [opened EXCEPT ![ch] = OpenRecord(resp)]
    /\ IF OpenOutcome(resp) = "ok"
       THEN /\ pc' = [pc EXCEPT ![ch] = "idle"]
            /\ chanID' = [chanID EXCEPT ![ch] = id]
            /\ clientSequencer' = [clientSequencer EXCEPT ![ch] = 0]
            /\ rowSequencer' = [rowSequencer EXCEPT ![ch] = 0]
            /\ UNCHANGED call
       ELSE UNCHANGED <<pc, chanID, clientSequencer, rowSequencer, call>>
    /\ UNCHANGED <<uploader, ticks, batch, paths, pathCalls, published,
                   lastTickFailed, sent, refreshLog>>

\* SnowflakeServiceClient.OpenChannel with options ID id, answered by resp
OpenChannel(ch, id, resp) ==
    /\ pc[ch] = "none"
    /\ NextRequestID
    /\ opened' = [opened EXCEPT ![ch] = OpenRecord(resp)]
    /\ IF OpenOutcome(resp) = "ok"
       THEN /\ pc' = [pc EXCEPT ![ch] = "idle"]
            /\ chanID' = [chanID EXCEPT ![ch] = id]
            /\ clientSequencer' = [clientSequencer EXCEPT ![ch] = resp.clientSequencer]
            /\ rowSequencer' = [rowSequencer EXCEPT ![ch] = resp.rowSequencer]
            /\ UNCHANGED call
       ELSE UNCHANGED <<pc, chanID, clientSequencer, rowSequencer, call>>
    /\ UNCHANGED <<uploader, ticks, batch, paths, pathCalls, published,
                   lastTickFailed, sent, refreshLog>>

\* SnowflakeServiceClient.DropChannel, answered by resp: the channel object a
\* caller still holds is not touched
DropChannel(ch, resp) ==
    /\ pc[ch] \in {"none", "idle"}
    /\ NextRequestID
    /\ UNCHANGED <<uploader, ticks, chanVars, paths, pathCalls, published,
                   lastTickFailed, opened, sent, refreshLog>>

(* ---------------------- InsertRows (lines 576-701) -------------------- *)
\* an error return that moves the row sequencer all the same
ErrorReturnAdvancing(ch, c, e) ==
    /\ pc' = [pc EXCEPT ![ch] = "idle"]
    /\ call' = [call EXCEPT ![ch] = Returned(c, e)]
    /\ rowSequencer' = [rowSequencer EXCEPT ![ch] = @ + 1]
    /\ UNCHANGED <<clientSequencer, batch>>

\* `return stats, err` with err set: every such return comes before the
\* two assignments of lines 695-696; the caller keeps the batch to retry it
ErrorReturn(ch, c, e) ==
    /\ pc' = [pc EXCEPT ![ch] = "idle"]
    /\ call' = [call EXCEPT ![ch] = Returned(c, e)]
    /\ UNCHANGED <<clientSequencer, rowSequencer, batch>>

\* an upload time measured from the start of the last attempt
WithStatsLastAttempt(c) ==
    [c EXCEPT !.uploadTime = c.uploadFinishTime - c.attemptStartTime]

\* stats.UploadTime = uploadFinishTime.Sub(uploadStartTime), line 699
WithStats(c) == [c EXCEPT !.uploadTime = c.uploadFinishTime - c.uploadStartTime]

\* a success return that keeps the local client sequencer
InsertSuccessKeepLocal(ch, c, echoed) ==
    /\ pc' = [pc EXCEPT ![ch] = "idle"]
    /\ call' = [call EXCEPT ![ch] = Returned(WithStats(c), "ok")]
    /\ rowSequencer' = [rowSequencer EXCEPT ![ch] = @ + 1]
    /\ UNCHANGED clientSequencer
    /\ batch' = [batch EXCEPT ![ch] = @ + 1]

\* a success return that assigns the echoed client sequencer to both fields
InsertSuccessRowFromEcho(ch, c, echoed) ==
    /\ pc' = [pc EXCEPT ![ch] = "idle"]
    /\ call' = [call EXCEPT ![ch] = Returned(WithStats(c), "ok")]
    /\ rowSequencer' = [rowSequencer EXCEPT ![ch] = echoed]
    /\ clientSequencer' = [clientSequencer EXCEPT ![ch] = echoed]
    /\ batch' = [batch EXCEPT ![ch] = @ + 1]

\* lines 695-700: c.rowSequencer++, c.clientSequencer = channel.ClientSequencer;
\* the caller moves on to its next batch
InsertSuccess(ch, c, echoed) ==
    /\ pc' = [pc EXCEPT ![ch] = "idle"]
    /\ call' = [call EXCEPT ![ch] = Returned(WithStats(c), "ok")]
    /\ rowSequencer' = [rowSequencer EXCEPT ![ch] = @ + 1]
    /\ clientSequencer' = [clientSequencer EXCEPT ![ch] = echoed]
    /\ batch' = [batch EXCEPT ![ch] = @ + 1]

\* the local steps that can fail: constructRowGroup (before the path is
\* generated), writeParquetFile, readParquetMetadata, encrypt (after it)
BuildFailures == {"none", "transform", "write", "metadata", "encrypt"}

\* lines 577-612: transform, generate the blob path, encode, read back, encrypt
InsertBegin(ch, fail, r) ==
    /\ pc[ch] = "idle"
    /\ batch[ch] <= MaxBatches
    /\ IF fail = "transform"
       THEN /\ ErrorReturn(ch, NewCall(ch, "insert"), fail)
            /\ UNCHANGED <<requestIDCounter, paths, pathCalls>>
       ELSE /\ requestIDCounter < MaxCounter
            /\ requestIDCounter' = CounterAdd(requestIDCounter)
            /\ LET blobPath == generateBlobPath(clientPrefix,
                                   FakeThreadID(chanID[ch], r), requestIDCounter')
                   c == [NewCall(ch, "insert") EXCEPT
                            !.path = blobPath,
                            !.uploadStartTime = Now(NewCall(ch, "insert"))]
               IN  /\ paths' = paths \cup {blobPath}
                   /\ pathCalls' = pathCalls + 1
                   /\ IF fail = "none"
                      THEN /\ pc' = [pc EXCEPT ![ch] = "load"]
                           /\ call' = [call EXCEPT ![ch] = c]
                           /\ UNCHANGED <<clientSequencer, rowSequencer, batch>>
                      ELSE ErrorReturn(ch, c, fail)
    /\ UNCHANGED <<uploader, ticks, chanID, remoteVars, requestLog, published,
                   lastTickFailed, opened, sent, refreshLog>>

\* lines 615-619: c.uploader.Load(), and the stale-credential return
InsertLoadUploader(ch) ==
    /\ pc[ch] = "load"
    /\ LET c == [call[ch] EXCEPT !.loaded = uploader,
                                 !.staleDue = lastTickFailed /\ ~call[ch].tickSince,
                                 !.afterGoodTick = ticks > 0 /\ ~lastTickFailed,
                                 !.loadTicks = ticks]
       IN  IF c.loaded.err # Nil
           THEN ErrorReturn(ch, c, "stale")
           ELSE /\ pc' = [pc EXCEPT ![ch] = "upload"]
                /\ call' = [call EXCEPT ![ch] = c]
                /\ UNCHANGED <<clientSequencer, rowSequencer, batch>>
    /\ UNCHANGED <<clientVars, chanID, remoteVars, histVars>>

\* a retry policy that allows one retry more
UploadRetryOneMore(k) == k <= MaxUploadRetries + 1

\* backoff.WithMaxRetries(b, 3): after the k-th failed attempt another one
\* follows while no more than 3 retries were made
UploadRetry(k) == k <= MaxUploadRetries

\* an attempt that reads the uploader cell again
UploaderOfAttemptReload(ch) == uploader.uploader

\* line 619, 621: the uploader an attempt runs on is the local variable that
\* was set from the loaded result
UploaderOfAttempt(ch) == call[ch].loaded.uploader

\* the locals after one more attempt
Attempted(ch) ==
    [call[ch] EXCEPT
        !.uploads = @ + 1,
        !.attemptStartTime = Now(call[ch]),
        !.strayUpload = @ \/ (UploaderOfAttempt(ch) # call[ch].loaded.uploader)]

\* an upload step that does not look at the error of the retries
InsertUploadIgnoringFailure(ch, ok) ==
    /\ pc[ch] = "upload"
    /\ LET c == Attempted(ch)
       IN  IF ok
           THEN /\ pc' = [pc EXCEPT ![ch] = "register"]
                /\ call' = [call EXCEPT ![ch] = [c EXCEPT !.uploadFinishTime = Now(c),
                                                         !.uploadedPath = c.path]]
                /\ UNCHANGED <<clientSequencer, rowSequencer, batch>>
           ELSE IF UploadRetry(c.uploads)
           THEN /\ call' = [call EXCEPT ![ch] = c]
                /\ UNCHANGED <<pc, clientSequencer, rowSequencer, batch>>
           ELSE /\ pc' = [pc EXCEPT ![ch] = "register"]
                /\ call' = [call EXCEPT ![ch] = c]
                /\ UNCHANGED <<clientSequencer, rowSequencer, batch>>
    /\ UNCHANGED <<clientVars, chanID, remoteVars, histVars>>

\* lines 620-625: one attempt of uploader.upload with the acquired uploader
InsertUpload(ch, ok) ==
    /\ pc[ch] = "upload"
    /\ LET c == Attempted(ch)
       IN  IF ok
           THEN /\ pc' = [pc EXCEPT ![ch] = "register"]
                /\ call' = [call EXCEPT ![ch] = [c EXCEPT !.uploadFinishTime = Now(c),
                                                         !.uploadedPath = c.path]]
                /\ UNCHANGED <<clientSequencer, rowSequencer, batch>>
           ELSE IF UploadRetry(c.uploads)
           THEN /\ call' = [call EXCEPT ![ch] = c]
                /\ UNCHANGED <<pc, clientSequencer, rowSequencer, batch>>
           ELSE ErrorReturn(ch, c, "upload")
    /\ UNCHANGED <<clientVars, chanID, remoteVars, histVars>>

\* a request that carries the current row sequencer, not the next one
RegisterRequestCurrentRow(ch) ==
    [channel |-> ch, clientSequencer |-> clientSequencer[ch],
     rowSequencer |-> rowSequencer[ch], batch |-> batch[ch]]

\* lines 658-667: the channel entry of the registerBlob request
RegisterRequest(ch) ==
    [channel |-> ch, clientSequencer |-> clientSequencer[ch],
     rowSequencer |-> rowSequencer[ch] + 1, batch |-> batch[ch]]

\* lines 673-694: what InsertRows makes of the registerBlob response
RegisterOutcome(resp) ==
    IF resp.err THEN "transport"
    ELSE IF resp.blobs # 1 THEN "blobs"
    ELSE IF resp.chunks # 1 THEN "chunks"
    ELSE IF resp.channels # 1 THEN "channels"
    ELSE IF resp.status # responseSuccess THEN "status"
    ELSE "ok"

\* history only: the last two registerBlob requests of a channel, each with
\* whether InsertRows returned success for it
Sent(log, req, ok) ==
    LET e == [rowSequencer |-> req.rowSequencer,
              clientSequencer |-> req.clientSequencer, ok |-> ok]
    IN  IF log = <<>> THEN <<e>> ELSE <<log[Len(log)], e>>

\* the response misses the one blob / one chunk / one channel shape
RegisterShapeMismatch(resp) ==
    ~resp.err /\ (resp.blobs # 1 \/ resp.chunks # 1 \/ resp.channels # 1)

\* lines 629-700: draw the request ID, send registerBlob, handle resp
InsertRegister(ch, resp) ==
    /\ pc[ch] = "register"
    /\ NextRequestID
    /\ sent' = [sent EXCEPT ![ch] = Sent(@, RegisterRequest(ch),
                                         RegisterOutcome(resp) = "ok")]
    /\ LET c == [call[ch] EXCEPT !.registers = @ + 1,
                                 !.requests = @ + 1,
                                 !.strayRegister = call[ch].uploadedPath # call[ch].path,
                                 !.sawShape = RegisterShapeMismatch(resp),
                                 !.nonSuccess = ~resp.err /\ resp.status # responseSuccess,
                                 !.echoed = IF RegisterOutcome(resp) = "ok"
                                            THEN resp.clientSequencer ELSE 0]
       IN  IF RegisterOutcome(resp) = "ok"
           THEN InsertSuccess(ch, c, resp.clientSequencer)
           ELSE ErrorReturn(ch, c, RegisterOutcome(resp))
    /\ UNCHANGED <<uploader, ticks, chanID, paths, pathCalls, published,
                   lastTickFailed, opened, refreshLog>>

(* ------------------ WaitUntilCommitted (lines 705-753) ---------------- *)
\* the response is one the poll reads the channel's sequencers from
WellFormed(resp) ==
    ~resp.err /\ resp.status = responseSuccess /\ Len(resp.channels) = 1

\* a poll that is satisfied only by a persisted row sequencer beyond the local one
PollOutcomeStrict(ch, resp) ==
    IF resp.err THEN "transient"
    ELSE IF resp.status # responseSuccess THEN "transient"
    ELSE IF Len(resp.channels) # 1 THEN "transient"
    ELSE IF resp.channels[1].persistedClient # clientSequencer[ch] THEN "permanent"
    ELSE IF resp.channels[1].persistedRow <= rowSequencer[ch] THEN "transient"
    ELSE "ok"

\* a poll that retries on a diverging client sequencer
PollOutcomeMismatchTransient(ch, resp) ==
    IF resp.err THEN "transient"
    ELSE IF resp.status # responseSuccess THEN "transient"
    ELSE IF Len(resp.channels) # 1 THEN "transient"
    ELSE IF resp.channels[1].persistedClient # clientSequencer[ch] THEN "transient"
    ELSE IF resp.channels[1].persistedRow < rowSequencer[ch] THEN "transient"
    ELSE "ok"

\* a poll that does not compare the client sequencers
PollOutcomeNoClientCheck(ch, resp) ==
    IF resp.err THEN "transient"
    ELSE IF resp.status # responseSuccess THEN "transient"
    ELSE IF Len(resp.channels) # 1 THEN "transient"
    ELSE IF resp.channels[1].persistedRow < rowSequencer[ch] THEN "transient"
    ELSE "ok"

\* a poll that gives up on a persisted row sequencer behind the local one
PollOutcomeBehindPermanent(ch, resp) ==
    IF resp.err THEN "transient"
    ELSE IF resp.status # responseSuccess THEN "transient"
    ELSE IF Len(resp.channels) # 1 THEN "transient"
    ELSE IF resp.channels[1].persistedClient # clientSequencer[ch] THEN "permanent"
    ELSE IF resp.channels[1].persistedRow < rowSequencer[ch] THEN "permanent"
    ELSE "ok"

\* lines 721-741: the result of one run of the polled operation
PollOutcome(ch, resp) ==
    IF resp.err THEN "transient"
    ELSE IF resp.status # responseSuccess THEN "transient"
    ELSE IF Len(resp.channels) # 1 THEN "transient"
    ELSE IF resp.channels[1].persistedClient # clientSequencer[ch] THEN "permanent"
    ELSE IF resp.channels[1].persistedRow < rowSequencer[ch] THEN "transient"
    ELSE "ok"

\* what the backoff does after a transient error: wait and retry, give up
\* (budget spent), or see the context cancelled
BackoffNext == {"retry", "stop", "cancelled"}

\* the status response misses the one channel entry shape
StatusShapeMismatch(resp) ==
    ~resp.err /\ resp.status = responseSuccess /\ Len(resp.channels) # 1

\* the status response carries a non-success code, at the top or in its entry
StatusNonSuccess(resp) ==
    /\ ~resp.err
    /\ \/ resp.status # responseSuccess
       \/ \E i \in 1..Len(resp.channels) : resp.channels[i].status # responseSuccess

\* history only: what a poll adds to the record of the call
PollHistory(ch, c, resp) ==
    [c EXCEPT
       !.requests = @ + 1,
       !.afterShape = IF c.sawShape THEN @ + 1 ELSE @,
       !.sawShape = @ \/ StatusShapeMismatch(resp),
       !.nonSuccess = StatusNonSuccess(resp),
       !.lastBehind = WellFormed(resp)
                      /\ resp.channels[1].persistedClient = clientSequencer[ch]
                      /\ resp.channels[1].persistedRow < rowSequencer[ch],
       !.pollsAfterMismatch = IF c.sawMismatch THEN @ + 1 ELSE @,
       !.sawMismatch = @ \/ (WellFormed(resp)
                             /\ resp.channels[1].persistedClient # clientSequencer[ch]),
       !.sawRow = @ \/ (WellFormed(resp)
                        /\ resp.channels[1].persistedRow >= rowSequencer[ch]),
       !.sawCommitted = @ \/ (WellFormed(resp)
                        /\ resp.channels[1].persistedClient = clientSequencer[ch]
                        /\ resp.channels[1].persistedRow >= rowSequencer[ch]),
       !.lastClient = IF WellFormed(resp) THEN resp.channels[1].persistedClient ELSE @,
       !.lastRow = IF WellFormed(resp) THEN resp.channels[1].persistedRow ELSE @]

\* a poll counter that counts the answered requests only
PolledCountingAnswers(ch, c, resp) ==
    [PollHistory(ch, c, resp) EXCEPT !.polls = IF resp.err THEN @ ELSE @ + 1]

\* line 708: polls++, before the channelStatus request of the iteration
Polled(ch, c, resp) ==
    [PollHistory(ch, c, resp) EXCEPT !.polls = @ + 1]

\* `return polls, err`: no assignment to the channel's sequencers
WaitReturn(ch, c, r) ==
    /\ pc' = [pc EXCEPT ![ch] = "idle"]
    /\ call' = [call EXCEPT ![ch] = Returned(c, r)]

\* one iteration of backoff.Retry in WaitUntilCommitted; the first one starts
\* the call
WaitPoll(ch, resp, next) ==
    /\ pc[ch] \in {"idle", "poll"}
    /\ LET c0 == IF pc[ch] = "idle" THEN NewCall(ch, "wait") ELSE call[ch]
           c == Polled(ch, c0, resp)
           out == PollOutcome(ch, resp)
       IN  /\ (next = "retry") => (c.polls < MaxPolls)
           /\ (out # "transient") => (next = "stop")
           /\ IF out = "ok" THEN WaitReturn(ch, c, "ok")
              ELSE IF out = "permanent" THEN WaitReturn(ch, c, "permanent")
              ELSE IF next = "retry"
              THEN /\ pc' = [pc EXCEPT ![ch] = "poll"]
                   /\ call' = [call EXCEPT ![ch] = c]
              ELSE WaitReturn(ch, c, IF next = "stop" THEN "exhausted" ELSE "cancelled")
    /\ UNCHANGED <<clientVars, chanID, clientSequencer, rowSequencer, batch,
                   remoteVars, histVars>>

(* -------------------- ChannelStatus (lines 495-521) ------------------- *)
\* what ChannelStatus makes of the channelStatus response
ChannelStatusOutcome(resp) ==
    IF resp.err THEN "transport"
    ELSE IF resp.status # responseSuccess THEN "status"
    ELSE IF Len(resp.channels) # 1 THEN "channels"
    ELSE IF resp.channels[1].status # responseSuccess THEN "entry"
    ELSE "ok"

\* SnowflakeServiceClient.ChannelStatus for the channel of slot ch: one
\* request without a request ID, no field of a channel object is touched
ChannelStatus(ch, resp) ==
    /\ pc[ch] \in {"none", "idle"}
    /\ LET c == [NewCall(ch, "status") EXCEPT
                    !.requests = 1,
                    !.sawShape = StatusShapeMismatch(resp),
                    !.nonSuccess = StatusNonSuccess(resp)]
       IN  call' = [call EXCEPT ![ch] = Returned(c, ChannelStatusOutcome(resp))]
    /\ UNCHANGED <<clientVars, pc, chanID, clientSequencer, rowSequencer, batch,
                   remoteVars, histVars>>

(* ------------------- the remote side, deduplicating ------------------- *)
\* The remote commits a registered blob for a channel only when the request's
\* row sequencer is beyond the persisted one and the client sequencer matches.
RemoteAccepts(req) ==
    /\ req.rowSequencer > persistedRow[req.channel]
    /\ req.clientSequencer = persistedClient[req.channel]

\* the remote's handling of a request that reached it
RemoteApply(req) ==
    IF RemoteAccepts(req)
    THEN /\ persistedRow' = [persistedRow EXCEPT ![req.channel] = req.rowSequencer]
         /\ committed' = [committed EXCEPT ![req.channel] = Append(@, req.batch)]
         /\ UNCHANGED persistedClient
    ELSE UNCHANGED remoteVars

\* the remote's answer: one blob, one chunk, one channel, its verdict
RemoteResponse(req) ==
    [err |-> FALSE, blobs |-> 1, chunks |-> 1, channels |-> 1,
     status |-> IF RemoteAccepts(req) THEN responseSuccess ELSE responseSuccess + 1,
     clientSequencer |-> IF RemoteAccepts(req) THEN persistedClient[req.channel] ELSE 0]

TransportError ==
    [err |-> TRUE, blobs |-> 0, chunks |-> 0, channels |-> 0,
     status |-> responseSuccess, clientSequencer |-> 0]

\* what the network does to a registerBlob call: the request never arrives,
\* the response is lost after the remote applied the request, or both arrive
NetworkFates == {"dropped", "lost", "delivered"}

\* InsertRows' registerBlob against the deduplicating remote
RegisterDedup(ch, fate) ==
    LET req == RegisterRequest(ch)
    IN  /\ IF fate = "dropped" THEN UNCHANGED remoteVars ELSE RemoteApply(req)
        /\ InsertRegister(ch, IF fate = "delivered" THEN RemoteResponse(req)
                              ELSE TransportError)

\* OpenChannel against the remote: it reports the channel's persisted sequencers
OpenRemote(ch, id, lost) ==
    /\ OpenChannel(ch, id,
          [err |-> lost, status |-> responseSuccess, schemaOK |-> ~lost,
           clientSequencer |-> IF lost THEN 0 ELSE persistedClient[ch],
           rowSequencer |-> IF lost THEN 0 ELSE persistedRow[ch]])
    /\ UNCHANGED remoteVars

(* --------------------------- specifications --------------------------- *)
\* the channel whose single writer the one-channel specifications follow
Writer == CHOOSE ch \in Channels : \A other \in Channels : ch <= other

\* Spec: one channel and its single writer: OpenChannel, the steps of
\* InsertRows and WaitUntilCommitted, every control-plane call answered by any
\* response at all. The channel ID and the random draw of the blob path play
\* no part in the sequencers and are fixed.
Next ==
    \/ \E resp \in OpenResponses :
          OpenChannel(Writer, Writer, resp) /\ UNCHANGED remoteVars
    \/ \E fail \in BuildFailures : InsertBegin(Writer, fail, 0)
    \/ InsertLoadUploader(Writer)
    \/ \E ok \in BOOLEAN : InsertUpload(Writer, ok)
    \/ \E resp \in RegisterResponses :
          InsertRegister(Writer, resp) /\ UNCHANGED remoteVars
    \/ \E resp \in StatusResponses, next \in BackoffNext :
          WaitPoll(Writer, resp, next)
    \/ \E resp \in StatusResponses : ChannelStatus(Writer, resp)

Spec == Init /\ [][Next]_vars

\* SpecRefresh: the refresh loop ticking beside the InsertRows calls of one
\* channel, every control-plane call answered by any response at all
NextRefresh ==
    \/ RefreshTick
    \/ \E resp \in OpenResponses :
          OpenChannel(Writer, Writer, resp) /\ UNCHANGED remoteVars
    \/ \E fail \in BuildFailures : InsertBegin(Writer, fail, 0)
    \/ InsertLoadUploader(Writer)
    \/ \E ok \in BOOLEAN : InsertUpload(Writer, ok)
    \/ \E resp \in RegisterResponses :
          InsertRegister(Writer, resp) /\ UNCHANGED remoteVars

SpecRefresh == Init /\ [][NextRefresh]_vars

\* the responses about a channel nothing was written to yet
FreshOpenResponses ==
    {r \in OpenResponses : r.clientSequencer = 0 /\ r.rowSequencer = 0}
FreshRegisterResponses ==
    {r \in RegisterResponses : r.clientSequencer = 0}

\* the responses of a healthy remote: a transport error or a success
PlainOpenResponses == {r \in OpenResponses : r.err \/ OpenOutcome(r) = "ok"}
PlainRegisterResponses ==
    {r \in RegisterResponses : r.err \/ RegisterOutcome(r) = "ok"}
PlainStatusResponses ==
    {r \in StatusResponses :
        r.err \/ (WellFormed(r) /\ r.channels[1].status = responseSuccess)}

\* an iteration of the retry loop of a WaitUntilCommitted call in progress
PollStep ==
    /\ pc[Writer] = "poll"
    /\ \E resp \in StatusResponses, next \in BackoffNext :
           WaitPoll(Writer, resp, next)

\* SpecLive: WaitUntilCommitted on a channel opened at any sequencers (the
\* call reads the two sequencers and nothing else of the channel), every poll
\* answered by any response at all, with the retry loop kept running: the
\* goroutine in backoff.Retry is scheduled and every channelStatus call returns
NextLive ==
    \/ \E resp \in PlainOpenResponses :
          OpenChannel(Writer, Writer, resp) /\ UNCHANGED remoteVars
    \/ \E resp \in StatusResponses, next \in BackoffNext :
          WaitPoll(Writer, resp, next)

SpecLive == Init /\ [][NextLive]_vars /\ WF_vars(PollStep)

\* SpecFrame: the channel of Writer with all its operations (OpenChannel,
\* ChannelStatus, DropChannel, the steps of InsertRows and WaitUntilCommitted)
\* while the refresh loop ticks and the other channels of the client run
\* InsertRows in parallel
NextFrame ==
    \/ RefreshTick
    \/ \E ch \in Channels, resp \in PlainOpenResponses :
          /\ (ch # Writer) => (resp \in FreshOpenResponses)
          /\ OpenChannel(ch, ch, resp) /\ UNCHANGED remoteVars
    \/ \E resp \in DropResponses :
          DropChannel(Writer, resp) /\ UNCHANGED remoteVars
    \/ \E resp \in PlainStatusResponses : ChannelStatus(Writer, resp)
    \/ \E ch \in Channels : InsertBegin(ch, "none", 0)
    \/ \E ch \in Channels : InsertLoadUploader(ch)
    \/ \E ch \in Channels : InsertUpload(ch, TRUE)
    \/ \E ch \in Channels, resp \in PlainRegisterResponses :
          InsertRegister(ch, resp) /\ UNCHANGED remoteVars
    \/ \E resp \in PlainStatusResponses, next \in BackoffNext :
          WaitPoll(Writer, resp, next)

SpecFrame == Init /\ [][NextFrame]_vars

\* SpecShared: every channel of the client working in parallel on the shared
\* request-ID counter: OpenChannel, DropChannel and the steps of InsertRows,
\* on channels that are fresh at the remote
NextShared ==
    \/ \E ch \in Channels, id \in ChannelIDs, resp \in FreshOpenResponses :
          OpenChannel(ch, id, resp) /\ UNCHANGED remoteVars
    \/ \E ch \in Channels, resp \in DropResponses :
          DropChannel(ch, resp) /\ UNCHANGED remoteVars
    \/ \E ch \in Channels, fail \in BuildFailures, r \in 0..(RandSpace - 1) :
          InsertBegin(ch, fail, r)
    \/ \E ch \in Channels : InsertLoadUploader(ch)
    \/ \E ch \in Channels, ok \in BOOLEAN : InsertUpload(ch, ok)
    \/ \E ch \in Channels, resp \in FreshRegisterResponses :
          InsertRegister(ch, resp) /\ UNCHANGED remoteVars

SpecShared == Init /\ [][NextShared]_vars

\* SpecDedup: the single writer of one channel delivering its batches to the
\* deduplicating remote over a network that drops requests and loses
\* responses; after an error the writer retries the same batch
NextDedup ==
    \/ RefreshTick
    \/ \E lost \in BOOLEAN : OpenRemote(Writer, Writer, lost)
    \/ \E fail \in BuildFailures : InsertBegin(Writer, fail, 0)
    \/ InsertLoadUploader(Writer)
    \/ \E ok \in BOOLEAN : InsertUpload(Writer, ok)
    \/ \E fate \in NetworkFates : RegisterDedup(Writer, fate)

SpecDedup == Init /\ [][NextDedup]_vars

(* ------------------------------ claims -------------------------------- *)
InsertReturned(ch) == call[ch].op = "insert" /\ call[ch].ret \notin {"none", "running"}
InsertOk(ch) == call[ch].op = "insert" /\ call[ch].ret = "ok"
InsertFailed(ch) == InsertReturned(ch) /\ call[ch].ret # "ok"
WaitReturned(ch) == call[ch].op = "wait" /\ call[ch].ret \notin {"none", "running"}
WaitOk(ch) == call[ch].op = "wait" /\ call[ch].ret = "ok"

\* C1: after an InsertRows call that returned without error, rowSequencer is
\* its value before the call plus exactly 1 and clientSequencer is the value
\* the registerBlob response echoed in its single channel entry.
C1_SuccessAdvancesByOne ==
    \A ch \in Channels :
        InsertOk(ch) => /\ rowSequencer[ch] = call[ch].preRow + 1
                        /\ clientSequencer[ch] = call[ch].echoed

\* a successful call whose response echoed another client sequencer than the
\* local one
C1_Witness ==
    \E ch \in Channels : InsertOk(ch) /\ call[ch].echoed # call[ch].preClient

\* C2: after an InsertRows call that returned an error, whatever the failing
\* step, rowSequencer and clientSequencer both have their values from before
\* the call.
C2_ErrorLeavesSequencers ==
    \A ch \in Channels :
        InsertFailed(ch) => /\ rowSequencer[ch] = call[ch].preRow
                            /\ clientSequencer[ch] = call[ch].preClient

\* a call that failed on a registerBlob response without exactly one chunk
C2_Witness ==
    \E ch \in Channels : InsertFailed(ch) /\ call[ch].ret = "chunks"
                                          /\ call[ch].registers = 1

\* the number of times batch b is committed to the table of channel ch
Commits(ch, b) == Cardinality({i \in 1..Len(committed[ch]) : committed[ch][i] = b})

\* C3: against the deduplicating remote and a lossy network, with the writer
\* retrying the same batch after every error, no batch is committed more than
\* once and every batch InsertRows returned success for is committed once.
C3_ExactlyOnce ==
    \A ch \in Channels :
        /\ \A i, j \in 1..Len(committed[ch]) :
               (i # j) => (committed[ch][i] # committed[ch][j])
        /\ \A b \in 1..(batch[ch] - 1) : Commits(ch, b) = 1

\* the remote committed batch 1, its response was lost, and the retry of the
\* same batch was rejected
C3_Witness ==
    /\ committed[Writer] = <<1>>
    /\ batch[Writer] = 1
    /\ InsertFailed(Writer) /\ call[Writer].ret = "status"

\* C4 as stated: WaitUntilCommitted returns success if and only if some poll
\* reported a persisted row sequencer at or beyond the local rowSequencer.
C4_SuccessIffRowReached ==
    \A ch \in Channels :
        WaitReturned(ch) => (WaitOk(ch) <=> call[ch].sawRow)

\* C4 amended: WaitUntilCommitted returns success if and only if some poll
\* reported a persisted client sequencer equal to the local one together with
\* a persisted row sequencer at or beyond the local rowSequencer.
C4_SuccessIffCommitted ==
    \A ch \in Channels :
        WaitReturned(ch) => (WaitOk(ch) <=> call[ch].sawCommitted)

\* success at the second poll, of a channel that has rows to wait for
C4_Witness ==
    \E ch \in Channels : WaitOk(ch) /\ call[ch].polls = 2 /\ rowSequencer[ch] >= 1

\* C5: once a poll reported a persisted client sequencer different from the
\* local one, WaitUntilCommitted has returned an error and made no further poll.
C5_MismatchIsPermanent ==
    \A ch \in Channels :
        (call[ch].op = "wait" /\ call[ch].sawMismatch)
            => /\ call[ch].ret = "permanent"
               /\ call[ch].pollsAfterMismatch = 0

\* a diverging client sequencer reported with a persisted row sequencer that
\* is reached, and with polls left
C5_Witness ==
    \E ch \in Channels : /\ call[ch].op = "wait" /\ call[ch].sawMismatch
                         /\ call[ch].sawRow /\ call[ch].polls < MaxPolls

\* C6 as stated: when WaitUntilCommitted returns success, the local
\* sequencers equal the persisted ones of the final poll, client and row.
C6_MirrorsExactly ==
    \A ch \in Channels :
        WaitOk(ch) => /\ clientSequencer[ch] = call[ch].lastClient
                      /\ rowSequencer[ch] = call[ch].lastRow

\* C6 amended: when WaitUntilCommitted returns success, the local
\* clientSequencer equals the persisted client sequencer of the final poll and
\* the local rowSequencer is at most its persisted row sequencer.
C6_MirrorsUpToRow ==
    \A ch \in Channels :
        WaitOk(ch) => /\ clientSequencer[ch] = call[ch].lastClient
                      /\ rowSequencer[ch] <= call[ch].lastRow

\* success on a persisted row sequencer beyond the local one
C6_Witness ==
    \E ch \in Channels : WaitOk(ch) /\ call[ch].lastRow > rowSequencer[ch]

\* C7: no two InsertRows calls, on one channel or on several, generate the
\* same (thread ID, counter) pair and so the same blob path.
C7_PathsDistinct == Cardinality(paths) = pathCalls

\* two channels with a call in flight each, whose thread IDs are the same
C7_Witness ==
    /\ \A ch \in Channels : call[ch].path # <<>>
    /\ \E a, b \in Channels : a # b /\ call[a].path[2] = call[b].path[2]

\* C8: no two control requests carry the same request identifier, and the
\* counter values in the identifiers strictly increase in the order drawn.
C8_RequestIDsIncrease ==
    \A i, j \in 1..Len(requestLog) :
        (i < j) => /\ requestLog[i] # requestLog[j]
                   /\ requestLog[i][2] < requestLog[j][2]

\* every channel is open, a registerBlob was sent, and a blob path took a
\* counter value between two request identifiers
C8_Witness ==
    /\ \A ch \in Channels : pc[ch] # "none"
    /\ \E ch \in Channels : call[ch].registers = 1
    /\ \E i \in 1..(Len(requestLog) - 1) :
           requestLog[i + 1][2] > requestLog[i][2] + 1

\* C9: an InsertRows call that starts after a refresh tick that failed, with
\* no tick since, returns the stale-credential error without an upload
\* attempt or a registerBlob request and leaves the sequencers unchanged.
C9_FailedTickFailsNextInsert ==
    \A ch \in Channels :
        (call[ch].op = "insert" /\ call[ch].staleDue)
            => /\ call[ch].ret = "stale"
               /\ call[ch].uploads = 0 /\ call[ch].registers = 0
               /\ rowSequencer[ch] = call[ch].preRow
               /\ clientSequencer[ch] = call[ch].preClient

\* a published value holds an uploader or an error, not both and not neither
TaggedResult(v) == (v.uploader # Nil) # (v.err # Nil)

\* C10: the uploader state an InsertRows call loaded is one published value,
\* and every published value holds either an uploader or an error.
C10_SnapshotIsOnePublication ==
    /\ \A ch \in Channels :
           (pc[ch] \in {"upload", "register"}) => (call[ch].loaded \in published)
    /\ \A v \in published : TaggedResult(v)

\* a call holds the uploader it loaded while a tick has replaced it by an error
C10_Witness ==
    \E ch \in Channels : /\ pc[ch] = "upload"
                         /\ call[ch].loaded # uploader
                         /\ uploader.err # Nil

\* C11 as stated: once an operation got a response that misses the one blob /
\* one chunk / one channel shape, it has returned an error and has issued no
\* further request.
C11_ShapeMismatchIsFatal ==
    \A ch \in Channels :
        call[ch].sawShape => /\ call[ch].ret \notin {"running", "ok"}
                             /\ call[ch].afterShape = 0

\* C12 as stated: no response carrying a non-success status code leads to a
\* success outcome: not the last response of a call that returned success
\* (InsertRows, WaitUntilCommitted, ChannelStatus), not the response of an
\* OpenChannel that returned a channel, not the configure response of a tick
\* that published a usable uploader.
C12_NonSuccessNeverSucceeds ==
    /\ \A ch \in Channels : (call[ch].ret = "ok") => ~call[ch].nonSuccess
    /\ \A ch \in Channels :
           (opened[ch].ret = "ok") => (opened[ch].status = responseSuccess)
    /\ ~(ticks > 0 /\ lastTickFailed /\ uploader.err = Nil)

\* C13 as stated: an InsertRows call makes at most 3 upload attempts.
C13_AtMostThreeUploads ==
    \A ch \in Channels : (call[ch].op = "insert") => (call[ch].uploads <= 3)

\* C13 amended: an InsertRows call makes at most 4 upload attempts, the first
\* one and 3 retries, and returns the upload error only after the 4th failed.
C13_AtMostRetriesPlusOne ==
    \A ch \in Channels :
        (call[ch].op = "insert")
            => /\ call[ch].uploads <= MaxUploadRetries + 1
               /\ (call[ch].ret = "upload")
                      => (call[ch].uploads = MaxUploadRetries + 1)

\* a call that returned the upload error after its 4th attempt
C13_Witness ==
    \E ch \in Channels : /\ InsertFailed(ch) /\ call[ch].ret = "upload"
                         /\ call[ch].uploads = 4

\* C14 as stated: over the lifetime of a channel neither rowSequencer nor
\* clientSequencer ever decreases.
C14_BothMonotonic ==
    [][\A ch \in Channels :
          (pc[ch] # "none") => /\ rowSequencer'[ch] >= rowSequencer[ch]
                               /\ clientSequencer'[ch] >= clientSequencer[ch]]_vars

\* C14 amended: over the lifetime of a channel rowSequencer never decreases,
\* and clientSequencer changes only when an InsertRows call returns success,
\* to the value the registerBlob response echoed.
C14_RowMonotonic ==
    [][\A ch \in Channels :
          (pc[ch] # "none")
              => /\ rowSequencer'[ch] >= rowSequencer[ch]
                 /\ (clientSequencer'[ch] # clientSequencer[ch])
                        => /\ pc[ch] = "register"
                           /\ call'[ch].op = "insert" /\ call'[ch].ret = "ok"
                           /\ clientSequencer'[ch] = call'[ch].echoed]_vars

\* a successful call that lowered the client sequencer of a channel with rows
C14_Witness ==
    \E ch \in Channels : /\ InsertOk(ch)
                         /\ clientSequencer[ch] < call[ch].preClient
                         /\ rowSequencer[ch] > 1

\* C15: the registerBlob request of an InsertRows call carries the row
\* sequencer at call time plus 1 and the client sequencer at call time; of two
\* consecutive requests of a channel the second carries the same pair when the
\* first call failed and a row sequencer exactly 1 greater when it succeeded.
C15_RequestCarriesNextRow ==
    \A ch \in Channels :
        /\ (call[ch].op = "insert" /\ call[ch].registers = 1)
               => /\ sent[ch] # <<>>
                  /\ sent[ch][Len(sent[ch])].rowSequencer = call[ch].preRow + 1
                  /\ sent[ch][Len(sent[ch])].clientSequencer = call[ch].preClient
        /\ (Len(sent[ch]) = 2)
               => IF sent[ch][1].ok
                  THEN sent[ch][2].rowSequencer = sent[ch][1].rowSequencer + 1
                  ELSE /\ sent[ch][2].rowSequencer = sent[ch][1].rowSequencer
                       /\ sent[ch][2].clientSequencer = sent[ch][1].clientSequencer

\* a failed call followed by one that sent the same pair again, on a channel
\* that had rows when it was opened
C15_Witness ==
    \E ch \in Channels : /\ Len(sent[ch]) = 2
                         /\ ~sent[ch][1].ok
                         /\ sent[ch][2].rowSequencer = 2

\* C16: the channel object OpenChannel returns starts at the sequencers of
\* the open-channel response, and a response with a non-success status gives
\* an error and no channel object.
C16_OpenAdoptsRemote ==
    \A ch \in Channels :
        /\ (pc[ch] # "none") <=> (opened[ch].ret = "ok")
        /\ (opened[ch].status # responseSuccess) => (opened[ch].ret = "status")
        /\ (opened[ch].ret = "ok" /\ batch[ch] = 1)
               => /\ rowSequencer[ch] = opened[ch].rowSequencer
                  /\ clientSequencer[ch] = opened[ch].clientSequencer

\* a channel that existed with rows at the remote was opened, nothing inserted
C16_Witness ==
    \E ch \in Channels : /\ opened[ch].ret = "ok" /\ batch[ch] = 1
                         /\ opened[ch].rowSequencer = 1
                         /\ opened[ch].clientSequencer = 1

\* C17: the integer WaitUntilCommitted returns is the number of channel-status
\* requests it issued, on every return path; when the first poll reports the
\* rows committed it returns 1 and no error.
C17_PollsCountRequests ==
    \A ch \in Channels :
        WaitReturned(ch)
            => /\ call[ch].polls = call[ch].requests
               /\ (call[ch].sawCommitted /\ call[ch].requests = 1)
                      => (call[ch].ret = "ok" /\ call[ch].polls = 1)

\* a call that gave up after two polls
C17_Witness ==
    \E ch \in Channels : /\ WaitReturned(ch) /\ call[ch].ret = "exhausted"
                         /\ call[ch].requests = 2

\* C18 as stated: when the upload succeeds at its third attempt, InsertRows
\* does not return the upload error, and on success UploadTime is the length
\* of the third attempt alone.
C18_UploadTimeFinalAttempt ==
    \A ch \in Channels :
        (call[ch].op = "insert" /\ call[ch].uploads = 3
                                 /\ call[ch].uploadFinishTime = 3)
            => /\ call[ch].ret # "upload"
               /\ InsertOk(ch) => (call[ch].uploadTime
                      = call[ch].uploadFinishTime - call[ch].attemptStartTime)

\* C18 amended: when the upload succeeds at its third attempt, InsertRows
\* does not return the upload error, and on success UploadTime spans all
\* three attempts, from before the first one to the end of the third.
C18_UploadTimeWholePhase ==
    \A ch \in Channels :
        (call[ch].op = "insert" /\ call[ch].uploads = 3
                                 /\ call[ch].uploadFinishTime = 3)
            => /\ call[ch].ret # "upload"
               /\ InsertOk(ch) => (call[ch].uploadTime = call[ch].uploads)

\* a successful call whose upload succeeded at the third attempt
C18_Witness ==
    \E ch \in Channels : InsertOk(ch) /\ call[ch].uploads = 3

\* C19: a channel's sequencers change only in the step in which an InsertRows
\* call on that channel returns success, whatever else runs on the client, and
\* rowSequencer is its value at open plus the number of successful calls.
C19_OnlyInsertSuccessMoves ==
    /\ [](\A ch \in Channels :
             (pc[ch] # "none")
                 => (rowSequencer[ch] = opened[ch].rowSequencer + (batch[ch] - 1)))
    /\ [][\A ch \in Channels :
             (pc[ch] # "none" /\ (rowSequencer'[ch] # rowSequencer[ch]
                                  \/ clientSequencer'[ch] # clientSequencer[ch]))
                 => /\ pc[ch] = "register"
                    /\ call'[ch].op = "insert" /\ call'[ch].ret = "ok"]_vars

\* one channel waited after a successful call while another channel has an
\* upload in flight and the refresh loop has ticked
C19_Witness ==
    \E other \in Channels :
        /\ other # Writer
        /\ batch[Writer] = 2 /\ WaitReturned(Writer)
        /\ pc[other] = "upload"
        /\ ticks > 0

\* C20: after a poll that reported the local client sequencer and a persisted
\* row sequencer behind the local one, WaitUntilCommitted polls again or has
\* returned for a spent budget or a cancelled context; once a poll reported
\* the rows committed it has returned success; and every call returns.
C20_BehindIsTransient ==
    /\ [](\A ch \in Channels :
             (call[ch].op = "wait")
                 => /\ call[ch].lastBehind
                        => \/ call[ch].ret = "running" /\ pc[ch] = "poll"
                           \/ call[ch].ret \in {"exhausted", "cancelled"}
                    /\ call[ch].sawCommitted => (call[ch].ret = "ok"))
    /\ \A ch \in Channels : (pc[ch] = "poll") ~> (pc[ch] = "idle")

\* a call that polls again after a poll found the rows not yet committed
C20_Witness ==
    \E ch \in Channels : /\ pc[ch] = "poll" /\ call[ch].lastBehind
                         /\ rowSequencer[ch] >= 1

\* C21: a registerBlob request is sent only for a blob path an upload attempt
\* of the same call returned success for; a call whose transform or encoding
\* failed, or whose upload attempts all failed, sent no registerBlob request.
C21_RegisterAfterUpload ==
    \A ch \in Channels :
        (call[ch].op = "insert")
            => /\ ~call[ch].strayRegister
               /\ (pc[ch] = "register") => (call[ch].uploadedPath = call[ch].path
                                            /\ call[ch].path # <<>>)
               /\ (call[ch].registers > 0) => (call[ch].uploadFinishTime > 0)
               /\ (call[ch].ret \in (BuildFailures \cup {"stale", "upload"}))
                      => (call[ch].registers = 0)

\* a call that registered its blob after the upload succeeded at the second
\* attempt
C21_Witness ==
    \E ch \in Channels : /\ call[ch].op = "insert" /\ call[ch].registers = 1
                         /\ call[ch].uploads = 2

\* C22: a call that acquired a usable uploader runs every upload attempt on
\* that uploader, whatever the refresh loop publishes afterwards, and does not
\* return the stale-credential error.
C22_AcquiredUploaderKept ==
    \A ch \in Channels :
        (call[ch].op = "insert")
            => /\ ~call[ch].strayUpload
               /\ (pc[ch] \in {"upload", "register"})
                      => (call[ch].loaded.uploader # Nil /\ call[ch].loaded.err = Nil)
               /\ (call[ch].uploads > 0) => (call[ch].ret # "stale")

\* a call past a failed attempt and a successful one, made after the refresh
\* loop replaced the uploader it acquired by an error
C22_Witness ==
    \E ch \in Channels : /\ pc[ch] = "register" /\ call[ch].uploads = 2
                         /\ call[ch].tickSince = FALSE
                         /\ call[ch].loaded # uploader
                         /\ uploader.err # Nil

\* C23: each tick makes one configure call and one publication, and a call
\* that acquires the uploader when the latest tick succeeded gets the uploader
\* that tick published and does not return the stale-credential error.
C23_FailedRefreshNotSticky ==
    /\ refreshLog.configures = ticks
    /\ refreshLog.stores = ticks
    /\ \A ch \in Channels :
           (call[ch].op = "insert" /\ call[ch].afterGoodTick)
               => /\ call[ch].ret # "stale"
                  /\ (pc[ch] \in {"upload", "register"})
                         => (call[ch].loaded
                                = StageUploaderResult(call[ch].loadTicks + 1, Nil))

\* a call acquired the uploader of the second tick after the first tick failed
C23_Witness ==
    \E ch \in Channels : /\ pc[ch] = "upload" /\ call[ch].afterGoodTick
                         /\ call[ch].loadTicks = 2
                         /\ StageUploaderResult(Nil, 2) \in published

====
